---- MODULE Spec2Model ----
(***************************************************************************)
(* Model of dmoj/commands/validate.py: ValidateCommand.execute and         *)
(* ValidateCommand.validate_problem, one action per program position.      *)
(* Collaborators that live outside validate.py (the sandboxed process,     *)
(* Result, populate_result, utf8text) are modelled from their contract.    *)
(***************************************************************************)
EXTENDS Integers, Sequences, FiniteSets, TLC

VARIABLES
    problem_ids,        \* args.problem_ids
    pc,                 \* position in execute / validate_problem
    idx,                \* index of the for-loop of execute over problem_ids
    total_fails,        \* execute: total_fails
    rets,               \* values returned by validate_problem, one per call
    exc,                \* exception propagating out of execute, or "none"
    read_feedback_from, \* validate_problem: read_feedback_from
    compiles,           \* number of compile_with_auxiliary_files calls in this call
    flattened_cases,    \* validate_problem: flattened_cases
    groups,             \* the groupby iterator of line 127, as its list of runs
    gi,                 \* index of the current run of groups
    ci,                 \* index of the current case inside the current run
    case_number,        \* validate_problem: case_number
    fail,               \* validate_problem: fail
    process,            \* the handle returned by executor.launch for this case
    procs,              \* state of every process launched in this call
    proc_output,        \* validate_problem: proc_output (Unbound until assigned)
    proc_error,         \* validate_problem: proc_error (Unbound until assigned)
    pending,            \* exception in flight inside try/finally, or "none"
    result,             \* validate_problem: result
    ret_line,           \* line of the return statement this call left by, 0 before
    feedback,           \* validate_problem: feedback (of the last status line)
    lines,              \* what this call of validate_problem printed
    validator_config,   \* the declaration lines 69-89 read, until line 91 consumed it
    cases,              \* grader.cases(), the tree that lines 107-113 walk
    replay              \* the recorded inputs and output of a call, and their
                        \* replay by the next call (off unless a run is repeated)

vars == <<problem_ids, pc, idx, total_fails, rets, exc, read_feedback_from,
          compiles, flattened_cases, groups, gi, ci, case_number, fail,
          process, procs, proc_output, proc_error, pending, result, feedback,
          ret_line, lines, validator_config, cases, replay>>

----------------------------------------------------------------------------
(* Bounds *)

MaxProblems == 2
MaxTree == 2
MaxBatch == 2
MaxCases == 3
MaxRunLen == 6
MaxScript == 8

(* Program constants *)

ErrLimit == 1048576

----------------------------------------------------------------------------
(* Optional values: None is the empty tuple, a value v is <<v>>. *)

None == <<>>
Some(v) == <<v>>
Truthy(o) == o # None /\ o[1] # 0

Min(a, b) == IF a < b THEN a ELSE b

(* Byte strings of the shape x^fill . txt : fill copies of the byte 'x'     *)
(* followed by the short byte sequence txt.  Text has the same shape with   *)
(* one-character strings in txt.                                            *)

Bytes(n, t) == [fill |-> n, txt |-> t]
EmptyBytes == Bytes(0, <<>>)
BLen(s) == s.fill + Len(s.txt)
Unbound == [unbound |-> TRUE]

IsWhitespace(b) == b \in {9, 10, 11, 12, 13, 32}

RECURSIVE RStripSeq(_)
RStripSeq(t) ==
    IF t = <<>> THEN <<>>
    ELSE IF IsWhitespace(t[Len(t)]) THEN RStripSeq(SubSeq(t, 1, Len(t) - 1))
    ELSE t

rstrip(s) == Bytes(s.fill, RStripSeq(s.txt))

Truncate(s, cap) ==
    IF s.fill >= cap THEN Bytes(cap, <<>>)
    ELSE Bytes(s.fill, SubSeq(s.txt, 1, Min(Len(s.txt), cap - s.fill)))

Chr(b) == IF b = 32 THEN " " ELSE IF b = 10 THEN "\n" ELSE IF b = 97 THEN "a"
          ELSE IF b = 98 THEN "b" ELSE "?"

utf8text(s) == [fill |-> s.fill, txt |-> [i \in DOMAIN s.txt |-> Chr(s.txt[i])]]
EmptyText == [fill |-> 0, txt |-> <<>>]
Text(t) == [fill |-> 0, txt |-> t]

----------------------------------------------------------------------------
(* Inputs *)

SupportedProblems == {"aplusb"}
ProblemIds == SupportedProblems \cup {"nosuch"}

RECURSIVE SeqsUpTo(_, _)
SeqsUpTo(S, n) ==
    IF n = 0 THEN {<<>>}
    ELSE LET shorter == SeqsUpTo(S, n - 1)
         IN  shorter \cup {Append(q, x) : q \in {r \in shorter : Len(r) = n - 1}, x \in S}

(* grader.cases(): a TestCase, or a BatchedTestCase with its member count *)
TestCase == [batched |-> FALSE, size |-> 1]
BatchedTestCase(n) == [batched |-> TRUE, size |-> n]
Elems == {TestCase} \cup {BatchedTestCase(n) : n \in 1..MaxBatch}
RECURSIVE TreeSize(_)
TreeSize(tree) ==
    IF tree = <<>> THEN 0 ELSE tree[1].size + TreeSize(Tail(tree))
Trees == {tree \in SeqsUpTo(Elems, MaxTree) : TreeSize(tree) <= MaxCases}

(* what a validator process does: bytes written to each stream and the     *)
(* limit conditions its exit telemetry reports                             *)
Behaviour(o, e, t) == [out |-> o, err |-> e, tele |-> t]
Behaviours ==
    {Behaviour(EmptyBytes, EmptyBytes, {}),
     Behaviour(Bytes(0, <<97, 10>>), Bytes(0, <<98, 32>>), {}),
     Behaviour(EmptyBytes, Bytes(0, <<98, 32>>), {"IR"}),
     Behaviour(Bytes(0, <<97, 10>>), EmptyBytes, {"IR"}),
     Behaviour(Bytes(0, <<97, 97, 97>>), Bytes(0, <<98, 32>>), {}),
     Behaviour(Bytes(0, <<97, 10>>), Bytes(ErrLimit + 1, <<>>), {})}
OutLimits == {2}

----------------------------------------------------------------------------
(* Result, as validate.py uses it *)

Precedence == <<"OLE", "WALL", "TLE", "MLE", "IR", "RTE">>

(* TestCase.points: the weight of a case, a positive number *)
CasePoints(case) == case.elem + case.position

Result(case) ==
    [case |-> case, result_flag |-> {}, feedback |-> EmptyText, points |-> 0]

RECURSIVE CodesFrom(_, _)
CodesFrom(flags, i) ==
    IF i > Len(Precedence) THEN <<>>
    ELSE (IF Precedence[i] \in flags THEN <<Precedence[i]>> ELSE <<>>)
         \o CodesFrom(flags, i + 1)

readable_codes(r) ==
    IF r.result_flag = {} THEN <<"AC">> ELSE CodesFrom(r.result_flag, 1)

CanonicalFeedback(flags) ==
    IF flags = {} THEN EmptyText ELSE Text(<<CodesFrom(flags, 1)[1]>>)

populate_result(stderr, r, p) ==
    LET flags == IF p.is_ole THEN {"OLE"} ELSE p.tele
    IN  [r EXCEPT !.result_flag = flags,
                  !.feedback = CanonicalFeedback(flags),
                  !.points = IF flags = {} THEN CasePoints(r.case) ELSE 0]

----------------------------------------------------------------------------
(* lines 105-113: flattening of grader.cases() *)

(* FlattenFrom, without line 109: batch_number is never incremented *)
RECURSIVE FlattenFromNoIncrement(_, _, _)
FlattenFromNoIncrement(tree, i, batch_number) ==
    IF i > Len(tree) THEN <<>>
    ELSE IF tree[i].batched
         THEN [j \in 1..tree[i].size |->
                   [batch |-> Some(batch_number),
                    case |-> [elem |-> i, position |-> j]]]
              \o FlattenFromNoIncrement(tree, i + 1, batch_number)
         ELSE <<[batch |-> None, case |-> [elem |-> i, position |-> 1]]>>
              \o FlattenFromNoIncrement(tree, i + 1, batch_number)

RECURSIVE FlattenFrom(_, _, _)
FlattenFrom(tree, i, batch_number) ==
    IF i > Len(tree) THEN <<>>
    ELSE IF tree[i].batched
         THEN [j \in 1..tree[i].size |->
                   [batch |-> Some(batch_number + 1),
                    case |-> [elem |-> i, position |-> j]]]
              \o FlattenFrom(tree, i + 1, batch_number + 1)
         ELSE <<[batch |-> None, case |-> [elem |-> i, position |-> 1]]>>
              \o FlattenFrom(tree, i + 1, batch_number)

Flatten(tree) == FlattenFrom(tree, 1, 0)

(* GroupBy, collecting under one key every item that carries it *)
RECURSIVE GroupByValue(_)
GroupByValue(s) ==
    IF s = <<>> THEN <<>>
    ELSE LET rest == GroupByValue(SubSeq(s, 1, Len(s) - 1))
             last == s[Len(s)]
         IN  IF \E k \in DOMAIN rest : rest[k].key = last.batch
             THEN [k \in DOMAIN rest |->
                     IF rest[k].key = last.batch
                     THEN [rest[k] EXCEPT !.items = Append(@, last)]
                     ELSE rest[k]]
             ELSE Append(rest, [key |-> last.batch, items |-> <<last>>])

(* line 127: itertools.groupby(flattened_cases, key=itemgetter(0)) *)

RECURSIVE GroupBy(_)
GroupBy(s) ==
    IF s = <<>> THEN <<>>
    ELSE LET rest == GroupBy(Tail(s))
         IN  IF rest # <<>> /\ rest[1].key = s[1].batch
             THEN <<[key |-> s[1].batch, items |-> <<s[1]>> \o rest[1].items]>>
                  \o Tail(rest)
             ELSE <<[key |-> s[1].batch, items |-> <<s[1]>>]>> \o rest

----------------------------------------------------------------------------
(* State *)

NoProcess == [state |-> "none", is_ole |-> FALSE, tele |-> {},
              captured_out |-> EmptyBytes, captured_err |-> EmptyBytes]
NoResult == [case |-> None, result_flag |-> {}, feedback |-> EmptyText,
             points |-> 0]
NoConfig == [has_validator |-> FALSE, language_ok |-> FALSE,
             feedback |-> "unread", source |-> "unread"]

(* no run is being repeated *)
NoReplay == [phase |-> "off", script |-> <<>>, pos |-> 0,
             first |-> <<>>, second |-> <<>>]

LocalsAfterFlatten ==
    /\ read_feedback_from = "stderr"
    /\ compiles = 0
    /\ groups = <<>>
    /\ gi = 0
    /\ ci = 0
    /\ case_number = 0
    /\ fail = 0
    /\ process = NoProcess
    /\ procs = <<>>
    /\ proc_output = Unbound
    /\ proc_error = Unbound
    /\ pending = "none"
    /\ result = NoResult
    /\ feedback = EmptyText
    /\ ret_line = 0
    /\ lines = <<>>
    /\ validator_config = NoConfig

Locals == flattened_cases = <<>> /\ cases = <<>> /\ LocalsAfterFlatten

Init ==
    /\ problem_ids \in (SeqsUpTo(ProblemIds, MaxProblems) \ {<<>>})
    /\ pc = "execute"
    /\ idx = 0
    /\ total_fails = 0
    /\ rets = <<>>
    /\ exc = "none"
    /\ Locals
    /\ replay = NoReplay

execVars == <<problem_ids, idx, total_fails, rets, exc, ret_line>>
caseVars == <<flattened_cases, groups, gi, ci, case_number, fail>>
procVars == <<process, procs, proc_output, proc_error, pending, result, feedback>>

(* A repeated run: the call before the last records what it was given     *)
(* (the declaration, the compiler's answer, the cases, the contrib lookup  *)
(* and what every validator process did) and what it printed; the last     *)
(* call is given the same again.                                           *)
NextPhase(call) ==
    IF replay.phase = "prior" /\ call = Len(problem_ids) - 1 THEN "record"
    ELSE IF replay.phase = "record" THEN "replay"
    ELSE replay.phase

(* the input v of kind k that the environment gives this step *)
Chosen(k, v) ==
    IF replay.phase = "record"
    THEN /\ Len(replay.script) < MaxScript
         /\ replay' = [replay EXCEPT
                         !.script = Append(@, [k |-> k, v |-> v])]
    ELSE IF replay.phase = "replay"
    THEN IF replay.pos < Len(replay.script)
            /\ replay.script[replay.pos + 1].k = k
         THEN /\ replay.script[replay.pos + 1].v = v
              /\ replay' = [replay EXCEPT !.pos = @ + 1]
         ELSE replay' = [replay EXCEPT !.phase = "diverged"]
    ELSE UNCHANGED replay

(* line 168: what the status line of a case shows *)
Emit(shown) ==
    IF replay.phase = "record"
    THEN replay' = [replay EXCEPT !.first = Append(@, shown)]
    ELSE IF replay.phase = "replay"
    THEN replay' = [replay EXCEPT !.second = Append(@, shown)]
    ELSE UNCHANGED replay

(* ResetLocals, with proc_output surviving from the previous call *)
ResetLocalsKeepsOutput ==
    /\ read_feedback_from' = "stderr"
    /\ compiles' = 0
    /\ flattened_cases' = <<>>
    /\ groups' = <<>>
    /\ gi' = 0
    /\ ci' = 0
    /\ case_number' = 0
    /\ fail' = 0
    /\ process' = NoProcess
    /\ procs' = <<>>
    /\ proc_output' = proc_output
    /\ proc_error' = Unbound
    /\ pending' = "none"
    /\ result' = NoResult
    /\ feedback' = EmptyText
    /\ ret_line' = 0
    /\ lines' = <<>>
    /\ validator_config' = NoConfig
    /\ cases' = <<>>

(* line 59: every call of validate_problem starts with fresh locals *)
ResetLocals ==
    /\ read_feedback_from' = "stderr"
    /\ compiles' = 0
    /\ flattened_cases' = <<>>
    /\ groups' = <<>>
    /\ gi' = 0
    /\ ci' = 0
    /\ case_number' = 0
    /\ fail' = 0
    /\ process' = NoProcess
    /\ procs' = <<>>
    /\ proc_output' = Unbound
    /\ proc_error' = Unbound
    /\ pending' = "none"
    /\ result' = NoResult
    /\ feedback' = EmptyText
    /\ ret_line' = 0
    /\ lines' = <<>>
    /\ validator_config' = NoConfig
    /\ cases' = <<>>

(* validate_problem returns v, by the return statement of line ln, to     *)
(* line 42 of execute                                                      *)
Return(v, ln) ==
    /\ rets' = Append(rets, v)
    /\ ret_line' = ln
    /\ pc' = "validated"
    /\ UNCHANGED <<problem_ids, idx, total_fails, exc>>

(* an exception leaves validate_problem; execute has no handler *)
Raise(e) ==
    /\ exc' = e
    /\ pc' = "raised"
    /\ UNCHANGED <<problem_ids, idx, total_fails, rets, ret_line>>

----------------------------------------------------------------------------
(* execute *)

(* ExecuteStart, checking only the first problem id *)
ExecuteStartChecksFirstOnly ==
    /\ pc = "execute"
    /\ UNCHANGED <<validator_config, cases, replay>>
    /\ IF problem_ids[1] \notin SupportedProblems
       THEN /\ exc' = "InvalidCommandException"
            /\ pc' = "raised"
            /\ UNCHANGED total_fails
       ELSE /\ total_fails' = 0
            /\ pc' = "for_problem"
            /\ UNCHANGED exc
    /\ UNCHANGED <<problem_ids, idx, rets, ret_line, read_feedback_from, compiles, lines>>
    /\ UNCHANGED <<caseVars, procVars>>

(* lines 31-40 *)
ExecuteStart ==
    /\ pc = "execute"
    /\ UNCHANGED <<validator_config, cases, replay>>
    /\ IF \E i \in DOMAIN problem_ids : problem_ids[i] \notin SupportedProblems
       THEN /\ exc' = "InvalidCommandException"
            /\ pc' = "raised"
            /\ UNCHANGED total_fails
       ELSE /\ total_fails' = 0
            /\ pc' = "for_problem"
            /\ UNCHANGED exc
    /\ UNCHANGED <<problem_ids, idx, rets, ret_line, read_feedback_from, compiles, lines>>
    /\ UNCHANGED <<caseVars, procVars>>

(* lines 41-42: the next problem_id, and the call of validate_problem *)
ForProblem ==
    /\ pc = "for_problem"
    /\ idx < Len(problem_ids)
    /\ idx' = idx + 1
    /\ pc' = "config"
    /\ ResetLocals
    /\ replay' = [replay EXCEPT !.phase = NextPhase(idx + 1)]
    /\ UNCHANGED <<problem_ids, total_fails, rets, exc>>

(* Account, counting every problem whether or not it failed *)
AccountCountsAll ==
    /\ pc = "validated"
    /\ UNCHANGED <<validator_config, cases, replay>>
    /\ total_fails' = total_fails + 1
    /\ pc' = "for_problem"
    /\ UNCHANGED <<problem_ids, idx, rets, exc, ret_line, read_feedback_from, compiles, lines>>
    /\ UNCHANGED <<caseVars, procVars>>

(* lines 43-48 *)
Account ==
    /\ pc = "validated"
    /\ UNCHANGED <<validator_config, cases, replay>>
    /\ total_fails' = IF rets[Len(rets)] # 0 THEN total_fails + 1 ELSE total_fails
    /\ pc' = "for_problem"
    /\ UNCHANGED <<problem_ids, idx, rets, exc, ret_line, read_feedback_from, compiles, lines>>
    /\ UNCHANGED <<caseVars, procVars>>

(* lines 50-57 *)
ExecuteReturn ==
    /\ pc = "for_problem"
    /\ UNCHANGED <<validator_config, cases, replay>>
    /\ idx >= Len(problem_ids)
    /\ pc' = "returned"
    /\ UNCHANGED <<execVars, read_feedback_from, compiles, lines>>
    /\ UNCHANGED <<caseVars, procVars>>

----------------------------------------------------------------------------
(* validate_problem *)

Features == {"absent", "stdout", "stderr", "syslog"}
ValidatorConfigs ==
    [has_validator : BOOLEAN, language_ok : BOOLEAN, feedback : Features,
     source : {"str", "list", "dict"}]

(* Config, without the check of the feedback option (lines 79-81) *)
ConfigIgnoresFeedbackOption ==
    /\ pc = "config"
    /\ \E config \in ValidatorConfigs :
         LET option == IF config.feedback = "absent" THEN "stderr"
                       ELSE config.feedback
         IN  /\ Chosen("config", config)
             /\ validator_config' = config
             /\ IF ~config.has_validator
                THEN Return(0, 67) /\ UNCHANGED read_feedback_from
                ELSE IF ~config.language_ok
                THEN Return(0, 73) /\ UNCHANGED read_feedback_from
                ELSE IF config.source \notin {"str", "list"}
                THEN Return(0, 89) /\ UNCHANGED read_feedback_from
                ELSE /\ read_feedback_from' = option
                     /\ pc' = "compile"
                     /\ UNCHANGED execVars
    /\ UNCHANGED <<compiles, lines, cases>>
    /\ UNCHANGED <<caseVars, procVars>>

(* lines 59-89: the configuration is read and the skip conditions checked *)
Config ==
    /\ pc = "config"
    /\ \E config \in ValidatorConfigs :
         LET option == IF config.feedback = "absent" THEN "stderr"
                       ELSE config.feedback
         IN  /\ Chosen("config", config)
             /\ validator_config' = config
             /\ IF ~config.has_validator
                THEN Return(0, 67) /\ UNCHANGED read_feedback_from
                ELSE IF ~config.language_ok
                THEN Return(0, 73) /\ UNCHANGED read_feedback_from
                ELSE IF option \notin {"stdout", "stderr"}
                THEN Return(0, 81) /\ UNCHANGED read_feedback_from
                ELSE IF config.source \notin {"str", "list"}
                THEN Return(0, 89) /\ UNCHANGED read_feedback_from
                ELSE /\ read_feedback_from' = option
                     /\ pc' = "compile"
                     /\ UNCHANGED execVars
    /\ UNCHANGED <<compiles, lines, cases>>
    /\ UNCHANGED <<caseVars, procVars>>

(* Compile, reporting a CompileError as a skipped problem *)
CompileErrorReturnsZero ==
    /\ pc = "compile"
    /\ compiles' = compiles + 1
    /\ validator_config' = NoConfig
    /\ UNCHANGED cases
    /\ \E compile_ok \in BOOLEAN :
         /\ Chosen("compile", compile_ok)
         /\ IF compile_ok
            THEN pc' = "flatten" /\ UNCHANGED execVars
            ELSE Return(0, 98)
    /\ UNCHANGED <<read_feedback_from, lines>>
    /\ UNCHANGED <<caseVars, procVars>>

(* lines 91-98 *)
Compile ==
    /\ pc = "compile"
    /\ compiles' = compiles + 1
    /\ validator_config' = NoConfig
    /\ UNCHANGED cases
    /\ \E compile_ok \in BOOLEAN :
         /\ Chosen("compile", compile_ok)
         /\ IF compile_ok
            THEN pc' = "flatten" /\ UNCHANGED execVars
            ELSE Return(1, 98)
    /\ UNCHANGED <<read_feedback_from, lines>>
    /\ UNCHANGED <<caseVars, procVars>>

(* lines 100-113 *)
FlattenCases ==
    /\ pc = "flatten"
    /\ \E tree \in Trees :
         /\ Chosen("cases", tree)
         /\ cases' = tree
         /\ flattened_cases' = Flatten(tree)
    /\ UNCHANGED validator_config
    /\ pc' = "contrib"
    /\ UNCHANGED <<execVars, read_feedback_from, compiles, lines>>
    /\ UNCHANGED <<groups, gi, ci, case_number, fail>>
    /\ UNCHANGED procVars

(* Contrib, treating an unknown contrib type as a skipped problem *)
ContribInvalidReturnsZero ==
    /\ pc = "contrib"
    /\ UNCHANGED <<validator_config, cases>>
    /\ \E contrib_ok \in BOOLEAN :
         /\ Chosen("contrib", contrib_ok)
         /\ IF contrib_ok
            THEN /\ case_number' = 0
                 /\ fail' = 0
                 /\ groups' = GroupBy(flattened_cases)
                 /\ gi' = 0
                 /\ ci' = 0
                 /\ pc' = "for_group"
                 /\ UNCHANGED execVars
            ELSE /\ Return(0, 118)
                 /\ UNCHANGED <<groups, gi, ci, case_number, fail>>
    /\ UNCHANGED <<read_feedback_from, compiles, lines, flattened_cases>>
    /\ UNCHANGED procVars

(* lines 115-127: contrib check, the counters, and the groupby iterator *)
Contrib ==
    /\ pc = "contrib"
    /\ UNCHANGED <<validator_config, cases>>
    /\ \E contrib_ok \in BOOLEAN :
         /\ Chosen("contrib", contrib_ok)
         /\ IF contrib_ok
            THEN /\ case_number' = 0
                 /\ fail' = 0
                 /\ groups' = GroupBy(flattened_cases)
                 /\ gi' = 0
                 /\ ci' = 0
                 /\ pc' = "for_group"
                 /\ UNCHANGED execVars
            ELSE /\ Return(1, 118)
                 /\ UNCHANGED <<groups, gi, ci, case_number, fail>>
    /\ UNCHANGED <<read_feedback_from, compiles, lines, flattened_cases>>
    /\ UNCHANGED procVars

(* lines 127-129: the next run of the groupby, with its batch header;      *)
(* line 173 when the iterator is exhausted                                 *)
ForGroup ==
    /\ pc = "for_group"
    /\ UNCHANGED <<validator_config, cases, replay>>
    /\ IF gi < Len(groups)
       THEN /\ gi' = gi + 1
            /\ ci' = 0
            /\ lines' = IF Truthy(groups[gi + 1].key)
                        THEN Append(lines, [kind |-> "batch",
                                            batch |-> groups[gi + 1].key])
                        ELSE lines
            /\ pc' = "for_case"
            /\ UNCHANGED execVars
       ELSE /\ Return(fail, 173)
            /\ UNCHANGED <<gi, ci, lines>>
    /\ UNCHANGED <<read_feedback_from, compiles, flattened_cases, groups,
                   case_number, fail>>
    /\ UNCHANGED procVars

(* ForCase, numbering the cases from 1 inside every run *)
ForCaseNumbersPerRun ==
    /\ pc = "for_case"
    /\ UNCHANGED <<validator_config, cases, replay>>
    /\ IF ci < Len(groups[gi].items)
       THEN /\ ci' = ci + 1
            /\ case_number' = ci + 1
            /\ result' = Result(groups[gi].items[ci + 1].case)
            /\ pc' = "launch"
       ELSE /\ pc' = "for_group"
            /\ UNCHANGED <<ci, case_number, result>>
    /\ UNCHANGED <<execVars, read_feedback_from, compiles, lines>>
    /\ UNCHANGED <<flattened_cases, groups, gi, fail>>
    /\ UNCHANGED <<process, procs, proc_output, proc_error, pending, feedback>>

(* lines 130-136 *)
ForCase ==
    /\ pc = "for_case"
    /\ UNCHANGED <<validator_config, cases, replay>>
    /\ IF ci < Len(groups[gi].items)
       THEN /\ ci' = ci + 1
            /\ case_number' = case_number + 1
            /\ result' = Result(groups[gi].items[ci + 1].case)
            /\ pc' = "launch"
       ELSE /\ pc' = "for_group"
            /\ UNCHANGED <<ci, case_number, result>>
    /\ UNCHANGED <<execVars, read_feedback_from, compiles, lines>>
    /\ UNCHANGED <<flattened_cases, groups, gi, fail>>
    /\ UNCHANGED <<process, procs, proc_output, proc_error, pending, feedback>>

(* lines 137-146: executor.launch returns a handle or raises *)
Launch ==
    /\ pc = "launch"
    /\ UNCHANGED <<validator_config, cases>>
    /\ \E launched \in BOOLEAN :
         /\ Chosen("launch", launched)
         /\ IF launched
            THEN /\ process' = [NoProcess EXCEPT !.state = "running"]
                 /\ procs' = Append(procs, "running")
                 /\ pc' = "communicate"
                 /\ UNCHANGED execVars
            ELSE /\ Raise("LaunchError")
                 /\ UNCHANGED <<process, procs>>
    /\ UNCHANGED <<read_feedback_from, compiles, lines>>
    /\ UNCHANGED caseVars
    /\ UNCHANGED <<proc_output, proc_error, pending, result, feedback>>

SetState(st) ==
    /\ process' = [process EXCEPT !.state = st]
    /\ procs' = [procs EXCEPT ![Len(procs)] = st]

(* lines 147-150: process.communicate returns both streams, raises         *)
(* OutputLimitExceeded when a stream passes its cap, or raises otherwise   *)
Communicate ==
    /\ pc = "communicate"
    /\ UNCHANGED <<validator_config, cases>>
    /\ \/ \E b \in Behaviours, outlimit \in OutLimits :
            /\ Chosen("communicate", Some([b |-> b, outlimit |-> outlimit]))
            /\ IF BLen(b.out) > outlimit \/ BLen(b.err) > ErrLimit
               THEN /\ process' = [process EXCEPT
                                     !.is_ole = TRUE,
                                     !.tele = b.tele,
                                     !.captured_out = Truncate(b.out, outlimit),
                                     !.captured_err = Truncate(b.err, ErrLimit)]
                    /\ pc' = "except_ole"
                    /\ UNCHANGED <<proc_output, proc_error, pending>>
               ELSE /\ process' = [process EXCEPT
                                     !.tele = b.tele,
                                     !.captured_out = b.out,
                                     !.captured_err = b.err]
                    /\ proc_output' = b.out
                    /\ proc_error' = b.err
                    /\ pc' = "finally"
                    /\ UNCHANGED pending
       \/ /\ Chosen("communicate", None)
          /\ pending' = "OSError"
          /\ pc' = "finally"
          /\ UNCHANGED <<process, proc_output, proc_error>>
    /\ UNCHANGED <<execVars, read_feedback_from, compiles, lines>>
    /\ UNCHANGED caseVars
    /\ UNCHANGED <<procs, result, feedback>>

(* lines 151-153 *)
ExceptOLE ==
    /\ pc = "except_ole"
    /\ UNCHANGED <<validator_config, cases, replay>>
    /\ proc_error' = EmptyBytes
    /\ SetState("killed")
    /\ pc' = "finally"
    /\ UNCHANGED <<execVars, read_feedback_from, compiles, lines>>
    /\ UNCHANGED caseVars
    /\ UNCHANGED <<proc_output, pending, result, feedback>>

(* Finally, with process.wait() after the try statement instead of in its *)
(* finally clause: an exception skips it                                   *)
FinallyWaitAfterTry ==
    /\ pc = "finally"
    /\ UNCHANGED <<validator_config, cases, replay>>
    /\ IF pending # "none"
       THEN Raise(pending) /\ UNCHANGED <<process, procs>>
       ELSE SetState("reaped") /\ pc' = "score" /\ UNCHANGED execVars
    /\ pending' = "none"
    /\ UNCHANGED <<read_feedback_from, compiles, lines>>
    /\ UNCHANGED caseVars
    /\ UNCHANGED <<proc_output, proc_error, result, feedback>>

(* Finally, without process.wait() *)
FinallyNoWait ==
    /\ pc = "finally"
    /\ UNCHANGED <<validator_config, cases, replay>>
    /\ UNCHANGED <<process, procs>>
    /\ IF pending # "none"
       THEN Raise(pending)
       ELSE pc' = "score" /\ UNCHANGED execVars
    /\ pending' = "none"
    /\ UNCHANGED <<read_feedback_from, compiles, lines>>
    /\ UNCHANGED caseVars
    /\ UNCHANGED <<proc_output, proc_error, result, feedback>>

(* lines 154-155: process.wait(), then the pending exception continues *)
Finally ==
    /\ pc = "finally"
    /\ UNCHANGED <<validator_config, cases, replay>>
    /\ SetState("reaped")
    /\ IF pending # "none"
       THEN Raise(pending)
       ELSE pc' = "score" /\ UNCHANGED execVars
    /\ pending' = "none"
    /\ UNCHANGED <<read_feedback_from, compiles, lines>>
    /\ UNCHANGED caseVars
    /\ UNCHANGED <<proc_output, proc_error, result, feedback>>

(* line 160: the dict literal reads both names before one is selected *)
FeedbackStream ==
    IF read_feedback_from = "stdout" THEN proc_output ELSE proc_error

(* Feedback, falling back to the verdict code instead of result.feedback *)
FeedbackFallsBackToCode(r) ==
    LET text == utf8text(rstrip(FeedbackStream))
    IN  IF text # EmptyText THEN text ELSE Text(<<readable_codes(r)[1]>>)

Feedback(r) ==
    LET text == utf8text(rstrip(FeedbackStream))
    IN  IF text # EmptyText THEN text ELSE r.feedback

(* StatusLine, printing the last readable code instead of the first *)
StatusLineLastCode(r) ==
    [kind |-> "case",
     num |-> case_number,
     case |-> r.case,
     padded |-> (groups[gi].key # None),
     flags |-> r.result_flag,
     code |-> readable_codes(r)[Len(readable_codes(r))]]

StatusLine(r) ==
    [kind |-> "case",
     num |-> case_number,
     case |-> r.case,
     padded |-> (groups[gi].key # None),
     flags |-> r.result_flag,
     code |-> readable_codes(r)[1]]

(* Score, with fail assigned from the current case alone *)
ScoreOverwritesFail ==
    /\ pc = "score"
    /\ UNCHANGED <<validator_config, cases>>
    /\ result' = populate_result(proc_error, result, process)
    /\ IF proc_output = Unbound
       THEN /\ Raise("UnboundLocalError")
            /\ UNCHANGED <<lines, fail, feedback, replay>>
       ELSE /\ feedback' = Feedback(result')
            /\ lines' = Append(lines, StatusLine(result'))
            /\ Emit([num |-> case_number,
                     code |-> StatusLine(result').code,
                     feedback |-> feedback'])
            /\ fail' = IF result'.result_flag # {} THEN 1 ELSE 0
            /\ pc' = "for_case"
            /\ UNCHANGED execVars
    /\ UNCHANGED <<read_feedback_from, compiles>>
    /\ UNCHANGED <<flattened_cases, groups, gi, ci, case_number>>
    /\ UNCHANGED <<process, procs, proc_output, proc_error, pending>>

(* lines 157-171 *)
Score ==
    /\ pc = "score"
    /\ UNCHANGED <<validator_config, cases>>
    /\ result' = populate_result(proc_error, result, process)
    /\ IF proc_output = Unbound
       THEN /\ Raise("UnboundLocalError")
            /\ UNCHANGED <<lines, fail, feedback, replay>>
       ELSE /\ feedback' = Feedback(result')
            /\ lines' = Append(lines, StatusLine(result'))
            /\ Emit([num |-> case_number,
                     code |-> StatusLine(result').code,
                     feedback |-> feedback'])
            /\ fail' = IF result'.result_flag # {} THEN 1 ELSE fail
            /\ pc' = "for_case"
            /\ UNCHANGED execVars
    /\ UNCHANGED <<read_feedback_from, compiles>>
    /\ UNCHANGED <<flattened_cases, groups, gi, ci, case_number>>
    /\ UNCHANGED <<process, procs, proc_output, proc_error, pending>>

----------------------------------------------------------------------------

Next ==
    \/ ExecuteStart
    \/ ForProblem
    \/ Account
    \/ ExecuteReturn
    \/ Config
    \/ Compile
    \/ FlattenCases
    \/ Contrib
    \/ ForGroup
    \/ ForCase
    \/ Launch
    \/ Communicate
    \/ ExceptOLE
    \/ Finally
    \/ Score

Spec == Init /\ [][Next]_vars

(* The grouping step alone, on every sequence of batch values: lines       *)
(* 115-127 applied to an arbitrary flattened_cases.                        *)
BatchValues == {None, Some(1), Some(2)}
FlattenedOf(batches) ==
    [i \in DOMAIN batches |->
        [batch |-> batches[i], case |-> [elem |-> i, position |-> 1]]]

InitGroup ==
    /\ problem_ids = <<"aplusb">>
    /\ pc = "contrib"
    /\ idx = 1
    /\ total_fails = 0
    /\ rets = <<>>
    /\ exc = "none"
    /\ LocalsAfterFlatten
    /\ cases = <<>>
    /\ replay = NoReplay
    /\ \E batches \in SeqsUpTo(BatchValues, MaxRunLen) :
          flattened_cases = FlattenedOf(batches)

NextGroup == Contrib

SpecGroup == InitGroup /\ [][NextGroup]_vars

(* The scoring step alone, lines 157-171 for the second of two top-level   *)
(* cases, on every combination of limit conditions and short streams: the  *)
(* first case was accepted and left its stdout in proc_output.             *)
TeleFlags == {"WALL", "TLE", "MLE", "IR", "RTE"}
ScoreStreams == {EmptyBytes, Bytes(0, <<32, 10>>), Bytes(0, <<97, 10>>),
                 Bytes(0, <<32, 98>>)}
TwoCases == <<TestCase, TestCase>>

InitScore ==
    /\ problem_ids = <<"aplusb">>
    /\ pc = "score"
    /\ idx = 1
    /\ total_fails = 0
    /\ rets = <<>>
    /\ exc = "none"
    /\ read_feedback_from \in {"stdout", "stderr"}
    /\ compiles = 1
    /\ cases = TwoCases
    /\ flattened_cases = Flatten(TwoCases)
    /\ groups = GroupBy(Flatten(TwoCases))
    /\ gi = 1
    /\ ci = 2
    /\ case_number = 2
    /\ fail = 0
    /\ \E o \in ScoreStreams, e \in ScoreStreams, t \in SUBSET TeleFlags,
          ole \in BOOLEAN :
          /\ process = [state |-> "reaped", is_ole |-> ole, tele |-> t,
                        captured_out |-> o, captured_err |-> e]
          /\ proc_output = o
          /\ proc_error = IF ole THEN EmptyBytes ELSE e
    /\ procs = <<"reaped", "reaped">>
    /\ pending = "none"
    /\ result = Result(Flatten(TwoCases)[2].case)
    /\ feedback = EmptyText
    /\ ret_line = 0
    /\ lines = <<[kind |-> "case", num |-> 1,
                  case |-> Flatten(TwoCases)[1].case, padded |-> FALSE,
                  flags |-> {}, code |-> "AC"]>>
    /\ validator_config = NoConfig
    /\ replay = NoReplay

NextScore == Score

SpecScore == InitScore /\ [][NextScore]_vars

(* execute on one problem id given two or more times: the last call is    *)
(* given what the call before it was given                                 *)
InitTwice ==
    /\ problem_ids \in {ids \in SeqsUpTo({"aplusb"}, MaxProblems + 1) :
                           Len(ids) >= 2}
    /\ pc = "execute"
    /\ idx = 0
    /\ total_fails = 0
    /\ rets = <<>>
    /\ exc = "none"
    /\ Locals
    /\ replay = [NoReplay EXCEPT !.phase = "prior"]

SpecTwice == InitTwice /\ [][Next]_vars

----------------------------------------------------------------------------
(* Auxiliary definitions for the properties *)

CaseLines == SelectSeq(lines, LAMBDA l : l.kind = "case")
Flagged == {i \in DOMAIN CaseLines : CaseLines[i].flags # {}}
FailedCalls == {i \in DOMAIN rets : rets[i] # 0}
InCaseLoop == pc \in {"for_group", "for_case", "launch", "communicate",
                      "except_ole", "finally", "score"}
ReturnedFromLoop == pc = "validated" /\ ret_line = 173
AllReaped == \A i \in DOMAIN procs : procs[i] = "reaped"

----------------------------------------------------------------------------
(* C1: execute returns the number of validate_problem calls that returned  *)
(* a non-zero value: between calls total_fails equals that number for the  *)
(* calls made so far (so each call adds at most 1), and when execute       *)
(* returns every entry of problem_ids has been validated.                  *)
C1_TotalFailsCountsFailedProblems ==
    /\ pc \in {"for_problem", "returned"} =>
          /\ total_fails = Cardinality(FailedCalls)
          /\ Len(rets) = idx
    /\ pc = "returned" => Len(rets) = Len(problem_ids)

C1_Witness ==
    /\ pc = "returned"
    /\ Len(problem_ids) = 2
    /\ rets = <<1, 0>>
    /\ total_fails = 1

(* C2: fail is 0 or 1 and, throughout the case loop, is 1 exactly when     *)
(* some status line printed so far carries a non-empty result_flag; the    *)
(* value returned by line 173 is that flag.                                *)
C2_FailIsAnyCaseFlagged ==
    /\ fail \in {0, 1}
    /\ InCaseLoop => (fail = 1 <=> Flagged # {})
    /\ ReturnedFromLoop =>
          /\ rets[Len(rets)] \in {0, 1}
          /\ rets[Len(rets)] = 1 <=> Flagged # {}

C2_Witness ==
    /\ ReturnedFromLoop
    /\ rets[Len(rets)] = 1
    /\ Len(CaseLines) >= 2
    /\ CaseLines[1].flags # {}
    /\ CaseLines[Len(CaseLines)].flags = {}

(* C3: an output-limit condition in a case's exchange never makes an       *)
(* exception leave validate_problem.                                       *)
C3_OutputLimitNeverPropagates ==
    (pc = "raised" /\ Len(procs) = case_number /\ case_number > 0)
        => ~process.is_ole

(* C4: no launched process is unreaped outside lines 147-155: the process  *)
(* of a case has been waited on before its verdict is computed, before the *)
(* next launch, and before validate_problem returns or raises.             *)
C4_ReapedBeforeVerdict ==
    /\ pc = "score" => process.state = "reaped"
    /\ pc \notin {"communicate", "except_ole", "finally"} => AllReaped
    /\ Len(procs) <= case_number

C4_Witness ==
    /\ pc = "raised"
    /\ exc = "OSError"
    /\ Len(procs) >= 2
    /\ AllReaped

(* C5: a launch failure is recorded as a verdict of its case; it never    *)
(* leaves validate_problem as an exception.                                *)
C5_LaunchFailureIsAVerdict ==
    pc = "raised" => exc # "LaunchError"

(* C6: an exception of the exchange other than the output-limit condition  *)
(* ends the case with a verdict; it never aborts the run.                  *)
C6_ExchangeErrorDoesNotAbort ==
    exc = "OSError" => pc # "raised"

(* C7: the stdout bytes a case is scored with are the bytes captured from  *)
(* that case's own process.                                                *)
C7_StdoutIsOwnCapture ==
    (pc = "score" /\ proc_output # Unbound)
        => proc_output = process.captured_out

Runs == [k \in DOMAIN groups |->
            [key |-> groups[k].key, n |-> Len(groups[k].items)]]

RECURSIVE Concat(_)
Concat(g) == IF g = <<>> THEN <<>> ELSE g[1].items \o Concat(Tail(g))

Boundaries ==
    {i \in 1..(Len(flattened_cases) - 1) :
        flattened_cases[i].batch # flattened_cases[i + 1].batch}

(* C9: the runs of the groupby are the maximal contiguous runs of equal    *)
(* batch value: concatenated they give flattened_cases, no run is empty,   *)
(* every item carries its run's key, adjacent runs differ in key, and      *)
(* there is one more run than there are changes of value; the batch values *)
(* None,1,1,2,2,None give the four runs (None,1) (1,2) (2,2) (None,1).     *)
C9_GroupsAreContiguousRuns ==
    (pc = "for_group" /\ gi = 0) =>
        /\ Concat(groups) = flattened_cases
        /\ \A k \in DOMAIN groups :
              /\ groups[k].items # <<>>
              /\ \A j \in DOMAIN groups[k].items :
                    groups[k].items[j].batch = groups[k].key
        /\ \A k \in 1..(Len(groups) - 1) : groups[k].key # groups[k + 1].key
        /\ flattened_cases # <<>> => Len(groups) = Cardinality(Boundaries) + 1
        /\ [i \in DOMAIN flattened_cases |-> flattened_cases[i].batch]
              = <<None, Some(1), Some(1), Some(2), Some(2), None>>
           => Runs = <<[key |-> None, n |-> 1], [key |-> Some(1), n |-> 2],
                       [key |-> Some(2), n |-> 2], [key |-> None, n |-> 1]>>

C9_Witness ==
    /\ pc = "for_group"
    /\ gi = 0
    /\ [i \in DOMAIN flattened_cases |-> flattened_cases[i].batch]
          = <<None, Some(1), Some(1), Some(2), Some(2), None>>
    /\ Len(groups) = 4

(* C10: after an output-limit condition the process has been reaped and    *)
(* the streams passed to scoring are the partial data the exchange         *)
(* captured: the stream within its cap whole, the other cut at its cap.    *)
C10_PartialDataReachesScoring ==
    (pc = "score" /\ process.is_ole) =>
        /\ process.state = "reaped"
        /\ proc_error = process.captured_err
        /\ proc_output = process.captured_out

SkipLines == {67, 73, 81, 89}
ConfigSkips(c) ==
    \/ ~c.has_validator
    \/ ~c.language_ok
    \/ c.feedback \notin {"absent", "stdout", "stderr"}
    \/ c.source \notin {"str", "list"}

(* C11: with no validator, an unsupported language, a feedback option      *)
(* other than stdout or stderr, or a source that is neither a string nor a *)
(* list, validate_problem returns 0 by one of the skip returns, having     *)
(* compiled nothing and launched nothing; only a declaration with none of  *)
(* these defects reaches the compile step.                                 *)
C11_BadDeclarationIsSkipped ==
    /\ pc = "compile" => ~ConfigSkips(validator_config)
    /\ (validator_config # NoConfig /\ ConfigSkips(validator_config)) =>
          /\ pc \in {"validated", "for_problem", "returned"}
          /\ ret_line \in SkipLines
          /\ rets[Len(rets)] = 0
          /\ compiles = 0
          /\ procs = <<>>
    /\ ret_line \in SkipLines => ConfigSkips(validator_config)

C11_Witness ==
    /\ pc = "validated"
    /\ validator_config.has_validator
    /\ validator_config.language_ok
    /\ validator_config.feedback = "syslog"
    /\ ret_line = 81
    /\ rets[Len(rets)] = 0

(* C12: the validator is compiled at most once in a call; after a          *)
(* CompileError the call has returned 1 with no process launched and no    *)
(* case reported, execute adds exactly 1 to total_fails and goes back to   *)
(* its loop over the problems.                                             *)
C12_CompileErrorFailsOneProblem ==
    /\ [](/\ compiles <= 1
          /\ ret_line = 98 =>
                /\ rets[Len(rets)] = 1
                /\ compiles = 1
                /\ procs = <<>>
                /\ lines = <<>>)
    /\ [][(pc = "validated" /\ ret_line = 98) =>
             (pc' = "for_problem" /\ total_fails' = total_fails + 1)]_vars

C12_Witness ==
    /\ pc = "for_problem"
    /\ ret_line = 98
    /\ total_fails = 1
    /\ idx < Len(problem_ids)

(* C13: after an unknown contrib type the call has returned 1 and no       *)
(* process was launched; a call that launched a process did not leave by   *)
(* that return.                                                            *)
C13_UnknownContribFailsWithoutLaunch ==
    /\ ret_line = 118 =>
          /\ rets[Len(rets)] = 1
          /\ procs = <<>>
          /\ CaseLines = <<>>
          /\ case_number = 0
    /\ procs # <<>> => ret_line \in {0, 173}

C13_Witness ==
    /\ pc = "validated"
    /\ ret_line = 118
    /\ Len(flattened_cases) >= 2
    /\ procs = <<>>

Live == {i \in DOMAIN procs : procs[i] # "reaped"}

(* C18: at most one validator process is live; while one is live it is the *)
(* last launched, every earlier one has been reaped and has its status     *)
(* line.                                                                   *)
C18_OneLiveProcess ==
    /\ Cardinality(Live) <= 1
    /\ Live # {} =>
          /\ Live = {Len(procs)}
          /\ Len(CaseLines) = Len(procs) - 1

C18_Witness ==
    /\ pc = "communicate"
    /\ Len(procs) = 2
    /\ Live = {2}

BatchIndex(i) == Cardinality({m \in 1..i : cases[m].batched})
SameBatch(a, b) == a.case.elem = b.case.elem

(* C19: the k-th batch of grader.cases() gets batch number k, all its      *)
(* members carry k, top-level cases carry None, the numbers never decrease *)
(* along flattened_cases, members of different batches differ in number,   *)
(* and no run of the groupby holds members of two batches.                 *)
C19_BatchNumbersInFirstSeenOrder ==
    cases # <<>> =>
        /\ \A n \in DOMAIN flattened_cases :
              LET e == flattened_cases[n]
              IN  IF cases[e.case.elem].batched
                  THEN e.batch = Some(BatchIndex(e.case.elem))
                  ELSE e.batch = None
        /\ \A n, m \in DOMAIN flattened_cases :
              LET a == flattened_cases[n]
                  b == flattened_cases[m]
              IN  (n < m /\ a.batch # None /\ b.batch # None) =>
                      /\ a.batch[1] <= b.batch[1]
                      /\ a.batch = b.batch <=> SameBatch(a, b)
        /\ \A k \in DOMAIN groups :
              groups[k].key # None =>
                  \A j \in DOMAIN groups[k].items :
                      SameBatch(groups[k].items[j], groups[k].items[1])

C19_Witness ==
    /\ pc = "for_group"
    /\ gi = 0
    /\ Len(cases) = 2
    /\ cases[1].batched
    /\ cases[2].batched
    /\ Len(groups) = 2

HasUnknown == \E i \in DOMAIN problem_ids : problem_ids[i] \notin SupportedProblems

(* C20: with an unknown id anywhere in problem_ids, execute ends by        *)
(* InvalidCommandException before any call of validate_problem: nothing is *)
(* read, compiled or launched for any id.                                  *)
C20_UnknownIdStopsBeforeValidation ==
    HasUnknown =>
        /\ pc \in {"execute", "raised"}
        /\ pc = "raised" => exc = "InvalidCommandException"
        /\ idx = 0
        /\ rets = <<>>
        /\ validator_config = NoConfig
        /\ compiles = 0
        /\ procs = <<>>

C20_Witness ==
    /\ pc = "raised"
    /\ problem_ids = <<"aplusb", "nosuch">>
    /\ exc = "InvalidCommandException"

JustScored == pc = "for_case" /\ case_number > 0 /\ Len(CaseLines) = case_number
OwnStream ==
    IF read_feedback_from = "stdout" THEN process.captured_out
    ELSE process.captured_err
OwnText == utf8text(rstrip(OwnStream))

(* C14: the feedback of a case is the content of the configured stream of  *)
(* that case's process without its trailing whitespace, or, when that is   *)
(* empty, the canonical feedback of the verdict.                           *)
C14_FeedbackIsTrimmedStream ==
    JustScored =>
        feedback = IF OwnText # EmptyText THEN OwnText ELSE result.feedback

PrimaryCode(flags) ==
    IF "OLE" \in flags THEN "OLE"
    ELSE IF "WALL" \in flags THEN "WALL"
    ELSE IF "TLE" \in flags THEN "TLE"
    ELSE IF "MLE" \in flags THEN "MLE"
    ELSE IF "IR" \in flags THEN "IR"
    ELSE IF "RTE" \in flags THEN "RTE"
    ELSE "AC"

====
